---- MODULE Spec2Model ----
(***************************************************************************)
(* Model of the Ximalaya (x2m / x3m) streaming header descrambler,         *)
(* src/src/decryption/ximalaya.rs.                                         *)
(*                                                                         *)
(* Two decoders, one built by new_x2m (4-byte key) and one by new_x3m      *)
(* (32-byte key), share a scramble table and are fed the same chunks of    *)
(* one input stream.  A third decoder, `one`, is a fresh new_x3m decoder   *)
(* that receives the whole stream fed so far in one single write call.     *)
(* BaseDecryptorData and get_mod_n live outside this file; they follow the  *)
(* StreamBuffer operations of the specification.                           *)
(* A write call is one action; the events of its loop are kept in `log`.   *)
(***************************************************************************)
EXTENDS Integers, Sequences, FiniteSets, TLC

(* ---------------- program constants ---------------- *)
XMLY_SCRAMBLE_SIZE == 1024
X2M_CONTENT_KEY_SIZE == 4
X3M_CONTENT_KEY_SIZE == 32
U16_MAX == 65535

(* ---------------- bounds of the model ---------------- *)
MaxWrites == 3

(* ---------------- bytes ---------------- *)
Byte == 0..255

RECURSIVE BitXor(_, _, _)
BitXor(a, b, n) ==
    IF n = 0 THEN 0
    ELSE ((a + b) % 2) + 2 * BitXor(a \div 2, b \div 2, n - 1)

\* XorTable[a + 1][b + 1] = a XOR b, as a tuple of tuples
XorTable ==
    [a \in 1..256 |-> [b \in 1..256 |-> BitXor(a - 1, b - 1, 8)] \o <<>>] \o <<>>

Xor(a, b) ==
    XorTable[a + 1][b + 1]

(* ---------------- inputs ---------------- *)
\* byte of the input stream at stream position i (0-based)
StreamByte(i) ==
    (i * i + 7 * i + 11) % 251

ChunkLens ==
    {0, 1, XMLY_SCRAMBLE_SIZE - 1, XMLY_SCRAMBLE_SIZE, XMLY_SCRAMBLE_SIZE + 1}

\* the longest input MaxWrites calls can feed, and the stream up to there
MaxInput ==
    MaxWrites * (XMLY_SCRAMBLE_SIZE + 1)

Stream ==
    [j \in 1..MaxInput |-> StreamByte(j - 1)] \o <<>>

Keys4 ==
    {<<0, 0, 0, 0>>, <<1, 2, 3, 4>>}

Repeat8(k) ==
    [i \in 1..X3M_CONTENT_KEY_SIZE |-> k[((i - 1) % X2M_CONTENT_KEY_SIZE) + 1]] \o <<>>

Aperiodic32 ==
    [i \in 1..X3M_CONTENT_KEY_SIZE |-> (i * 7) % 256] \o <<>>

\* tables are 1-based tuples holding the entries of the 0-based array
\* (`\o <<>>` only turns the function into a tuple)
TableIdentity ==
    [i \in 1..XMLY_SCRAMBLE_SIZE |-> i - 1] \o <<>>

TableReverse ==
    [i \in 1..XMLY_SCRAMBLE_SIZE |-> XMLY_SCRAMBLE_SIZE - i] \o <<>>

TableFold ==
    [i \in 1..XMLY_SCRAMBLE_SIZE |-> (3 * (i - 1)) % (XMLY_SCRAMBLE_SIZE \div 2)] \o <<>>

TableWild ==
    [i \in 1..XMLY_SCRAMBLE_SIZE |-> IF i = 7 THEN U16_MAX ELSE i - 1] \o <<>>

Tables ==
    {TableIdentity, TableReverse, TableFold, TableWild}

TableInRange(t) ==
    \A i \in 1..XMLY_SCRAMBLE_SIZE : t[i] < XMLY_SCRAMBLE_SIZE

(* ---------------- BaseDecryptorData (StreamBuffer) ---------------- *)
BaseDecryptorData_new ==
    [buf_in |-> <<>>, buf_out |-> <<>>, offset |-> 0]

\* mutant: a chunk that fills the buffer exactly is reported not ready
read_until_offset_le(data, p, target) ==
    LET need == target - Len(data.buf_in)
    IN  IF Len(p) <= need
        THEN [data  |-> [data EXCEPT !.buf_in = @ \o p],
              p     |-> <<>>,
              ready |-> FALSE]
        ELSE [data  |-> [data EXCEPT !.buf_in = @ \o SubSeq(p, 1, need)],
              p     |-> SubSeq(p, need + 1, Len(p)),
              ready |-> TRUE]

\* returns the buffer, the unconsumed remainder of the chunk and the flag
read_until_offset(data, p, target) ==
    LET need == target - Len(data.buf_in)
    IN  IF Len(p) < need
        THEN [data  |-> [data EXCEPT !.buf_in = @ \o p],
              p     |-> <<>>,
              ready |-> FALSE]
        ELSE [data  |-> [data EXCEPT !.buf_in = @ \o SubSeq(p, 1, need)],
              p     |-> SubSeq(p, need + 1, Len(p)),
              ready |-> TRUE]

consume_bytes(data, n) ==
    [data EXCEPT !.buf_in = SubSeq(@, n + 1, Len(@)),
                 !.offset = @ + n]

\* key[i mod key.length], i 0-based
get_mod_n(key, i) ==
    key[(i % Len(key)) + 1]

(* ---------------- Ximalaya<[u8; KEY_SIZE]> ---------------- *)
\* mutant: the decoder starts in the wrong state
Ximalaya_new_passthrough(key, scramble_table) ==
    [data           |-> BaseDecryptorData_new,
     key            |-> key,
     state          |-> "PassThrough",
     scramble_table |-> scramble_table]

Ximalaya_new(key, scramble_table) ==
    [data           |-> BaseDecryptorData_new,
     key            |-> key,
     state          |-> "DecryptHeader",
     scramble_table |-> scramble_table]

new_x2m(key, scramble_table) ==
    Ximalaya_new(key, scramble_table)

new_x3m(key, scramble_table) ==
    Ximalaya_new(key, scramble_table)

\* mutant: the index is off by one (buf_in[idx + 1])
header_index_ok_plus1(self) ==
    LET len   == Len(self.data.buf_in)
        table == self.scramble_table
    IN  \A i \in 1..XMLY_SCRAMBLE_SIZE : table[i] + 1 < len

\* buf_in[idx] is a checked index: it aborts the call when idx is past the end
header_index_ok(self) ==
    LET len   == Len(self.data.buf_in)
        table == self.scramble_table
    IN  \A i \in 1..XMLY_SCRAMBLE_SIZE : table[i] < len

\* mutant: the scramble table is not applied
header_byte_noperm(buf_in, scramble_table, key, i) ==
    Xor(buf_in[i + 1], get_mod_n(key, i))

\* mutant: the key is applied once and does not wrap
header_byte_nowrap(buf_in, scramble_table, key, i) ==
    Xor(buf_in[scramble_table[i + 1] + 1],
        IF i < Len(key) THEN key[i + 1] ELSE 0)

\* the byte written to position i (0-based) of the descrambled header
header_byte(buf_in, scramble_table, key, i) ==
    Xor(buf_in[scramble_table[i + 1] + 1], get_mod_n(key, i))

\* mutant: the header bytes are not consumed from buf_in
do_header_decryption_noconsume(self) ==
    LET buf_in == self.data.buf_in
        table  == self.scramble_table
        key    == self.key
        output == [j \in 1..XMLY_SCRAMBLE_SIZE |->
                     header_byte(buf_in, table, key, j - 1)]
    IN  [self EXCEPT !.data.buf_out = @ \o output]

do_header_decryption(self) ==
    LET buf_in == self.data.buf_in
        table  == self.scramble_table
        key    == self.key
        output == [j \in 1..XMLY_SCRAMBLE_SIZE |->
                     header_byte(buf_in, table, key, j - 1)]
    IN  [self EXCEPT
            !.data = consume_bytes([@ EXCEPT !.buf_out = @ \o output],
                                   XMLY_SCRAMBLE_SIZE)]

\* mutant: the state is not switched after the header
header_ready_nostate(self) ==
    do_header_decryption(self)

\* the body of `if read_until_offset(..)`: descramble, then switch the state
header_ready(self) ==
    [do_header_decryption(self) EXCEPT !.state = "PassThrough"]

\* mutant: the offset is not advanced
pass_through_nooffset(self, p) ==
    [self EXCEPT !.data.buf_out = @ \o p]

\* mutant: the chunk is also kept in buf_in
pass_through_keepin(self, p) ==
    [self EXCEPT !.data.buf_out = @ \o p,
                 !.data.buf_in = @ \o p,
                 !.data.offset = @ + Len(p)]

\* mutant: the slice copied to the output starts one byte late (&p[1..])
pass_through_skip(self, p) ==
    [self EXCEPT !.data.buf_out = @ \o SubSeq(p, 2, Len(p)),
                 !.data.offset = @ + Len(p)]

\* mutant: the output is overwritten with the chunk instead of extended
pass_through_replace(self, p) ==
    [self EXCEPT !.data.buf_out = p,
                 !.data.offset = @ + Len(p)]

\* the State::PassThrough arm
pass_through(self, p) ==
    [self EXCEPT !.data.buf_out = @ \o p,
                 !.data.offset = @ + Len(p)]

\* one event of the write loop, kept for the observers of a call
Event(op, k, n, ready, pending, rest) ==
    [op |-> op, k |-> k, n |-> n, ready |-> ready,
     pending |-> pending, rest |-> rest]

\* one iteration of the loop of write, on the frame
\* f = [self, p, brk, ret, log]: ret is "Run" until the call ends
loop_step(f) ==
    IF f.self.state = "DecryptHeader"
    THEN LET r  == read_until_offset(f.self.data, f.p, XMLY_SCRAMBLE_SIZE)
             s1 == [f.self EXCEPT !.data = r.data]
             e1 == Event("read", Len(f.self.data.buf_in), Len(f.p),
                         r.ready, r.data.buf_in, r.p)
         IN  IF ~r.ready
             THEN [f EXCEPT !.self = s1, !.p = r.p, !.log = Append(@, e1)]
             ELSE IF ~header_index_ok(s1)
             THEN [f EXCEPT !.self = s1, !.p = r.p, !.ret = "Panic",
                            !.log = Append(@, e1)]
             ELSE [f EXCEPT !.self = header_ready(s1), !.p = r.p,
                            !.log = @ \o <<e1, Event("decrypt", 0, 0, TRUE,
                                                     <<>>, <<>>)>>]
    ELSE [f EXCEPT !.self = pass_through(f.self, f.p),
                   !.brk = TRUE,
                   !.log = Append(@, Event("pass", 0, Len(f.p), TRUE,
                                           <<>>, <<>>))]

RECURSIVE write_loop(_)

\* mutant: `if` in place of `while`, the body runs at most once
write_loop_once(f) ==
    IF f.p = <<>>
    THEN [f EXCEPT !.ret = "Ok"]
    ELSE LET g == loop_step(f)
         IN  IF g.ret = "Panic" THEN g ELSE [g EXCEPT !.ret = "Ok"]

\* while !p.is_empty() { .. }  then Ok(())
write_loop(f) ==
    IF f.ret = "Panic"
    THEN f
    ELSE IF f.p = <<>> \/ f.brk
    THEN [f EXCEPT !.ret = "Ok"]
    ELSE write_loop(loop_step(f))

\* mutant: an empty chunk is refused with an error
write_noempty(self, data) ==
    IF data = <<>>
    THEN [self |-> self, p |-> data, brk |-> FALSE, ret |-> "Err", log |-> <<>>]
    ELSE write_loop([self |-> self, p |-> data, brk |-> FALSE,
                     ret |-> "Run", log |-> <<>>])

write(self, data) ==
    write_loop([self |-> self, p |-> data, brk |-> FALSE,
                ret |-> "Run", log |-> <<>>])

(* ---------------- state ---------------- *)
\* x2m, x3m : the decoders made by new_x2m and new_x3m, fed the same chunks
\* one      : a new_x3m decoder that gets the whole input in a single write
\* input    : every byte fed so far;  calls : number of write calls made
\* ret, log : result and loop events of the last write call of each decoder
\* decrypts : number of times each decoder ran do_header_decryption
VARIABLES x2m, x3m, one, input, calls, ret, log, decrypts

vars == <<x2m, x3m, one, input, calls, ret, log, decrypts>>

Insts == {"x2m", "x3m", "one"}

Init ==
    \E k4 \in Keys4, t \in Tables :
      \E k32 \in {Repeat8(k4), Aperiodic32} :
        /\ x2m = new_x2m(k4, t)
        /\ x3m = new_x3m(k32, t)
        /\ one = new_x3m(k32, t)
        /\ input = <<>>
        /\ calls = 0
        /\ ret = [i \in Insts |-> "None"]
        /\ log = [i \in Insts |-> <<>>]
        /\ decrypts = [i \in Insts |-> 0]

\* the next n bytes of the stream
NextChunk(n) ==
    SubSeq(Stream, Len(input) + 1, Len(input) + n)

CountOp(l, op) ==
    Cardinality({j \in 1..Len(l) : l[j].op = op})

\* the caller feeds the next n bytes of the stream to every decoder
Write(n) ==
    /\ calls < MaxWrites
    /\ \A i \in Insts : ret[i] # "Panic"
    /\ LET chunk == NextChunk(n)
           w2 == write(x2m, chunk)
           w3 == write(x3m, chunk)
           w1 == write(new_x3m(x3m.key, x3m.scramble_table), input \o chunk)
       IN  /\ x2m' = w2.self
           /\ x3m' = w3.self
           /\ one' = w1.self
           /\ input' = input \o chunk
           /\ calls' = calls + 1
           /\ ret' = [i \in Insts |->
                        IF i = "x2m" THEN w2.ret
                        ELSE IF i = "x3m" THEN w3.ret ELSE w1.ret]
           /\ log' = [i \in Insts |->
                        IF i = "x2m" THEN w2.log
                        ELSE IF i = "x3m" THEN w3.log ELSE w1.log]
           /\ decrypts' = [i \in Insts |->
                        IF i = "x2m" THEN decrypts[i] + CountOp(w2.log, "decrypt")
                        ELSE IF i = "x3m" THEN decrypts[i] + CountOp(w3.log, "decrypt")
                        ELSE CountOp(w1.log, "decrypt")]

Next ==
    \E n \in ChunkLens : Write(n)

Spec ==
    Init /\ [][Next]_vars

TypeOK ==
    /\ x2m.state \in {"DecryptHeader", "PassThrough"}
    /\ x3m.state \in {"DecryptHeader", "PassThrough"}
    /\ Len(x2m.key) = X2M_CONTENT_KEY_SIZE
    /\ Len(x3m.key) = X3M_CONTENT_KEY_SIZE
    /\ calls \in 0..MaxWrites

(* ======================= properties ======================= *)
S == XMLY_SCRAMBLE_SIZE

Fed == Len(input)

Reads(i) ==
    {j \in 1..Len(log[i]) : log[i][j].op = "read"}

Passes(i) ==
    {j \in 1..Len(log[i]) : log[i][j].op = "pass"}

\* C1: chunking invariance.  The decoder x3m, fed the stream in the chunks
\* the caller chose (empty chunks and 1-byte chunks included), and the
\* decoder `one` with the same key and table, fed the same stream in one
\* single write call, hold byte-identical output.
ChunkingInvariance ==
    x3m.data.buf_out = one.data.buf_out

\* three calls delivered 2048 bytes, which `one` got in one call that read
\* the header, descrambled it and passed the rest through
ChunkingWitness ==
    /\ calls = 3
    /\ Fed = 2 * S
    /\ Len(x3m.data.buf_out) = 2 * S
    /\ Len(log["one"]) = 3
    /\ Len(log["x3m"]) = 1

\* C2: header transform.  Once S bytes have been fed to a decoder whose
\* table entries are all below S, its first S output bytes are
\* output[i] = input[table[i]] XOR key[i mod key.length]; with the identity
\* table and an all-zero key they are the first S input bytes.
HeaderCorrect(d) ==
    (Fed >= S /\ TableInRange(d.scramble_table)) =>
        /\ Len(d.data.buf_out) >= S
        /\ \A i \in 0..(S - 1) :
              d.data.buf_out[i + 1] =
                Xor(input[d.scramble_table[i + 1] + 1],
                    d.key[(i % Len(d.key)) + 1])
        /\ (d.scramble_table = TableIdentity /\ \A j \in 1..Len(d.key) : d.key[j] = 0)
              => SubSeq(d.data.buf_out, 1, S) = SubSeq(input, 1, S)

HeaderTransform ==
    HeaderCorrect(x2m) /\ HeaderCorrect(x3m)

\* a 4-byte and an aperiodic 32-byte key descrambled a header through a
\* table that is not a bijection
HeaderWitness ==
    /\ Fed >= S
    /\ x2m.scramble_table = TableFold
    /\ x2m.key = <<1, 2, 3, 4>>
    /\ x3m.key = Aperiodic32
    /\ Len(x2m.data.buf_out) >= S
    /\ Len(x3m.data.buf_out) >= S

\* C3: pass-through.  After write calls that returned, every input byte at
\* a stream position >= S is in the output at the same position, right
\* after the S header bytes, none lost and none added.
PassThroughCorrect(d, i) ==
    (ret[i] # "Panic" /\ Fed >= S) =>
        /\ Len(d.data.buf_out) = Fed
        /\ \A j \in (S + 1)..Fed : d.data.buf_out[j] = input[j]

PassThroughBytes ==
    PassThroughCorrect(x2m, "x2m") /\ PassThroughCorrect(x3m, "x3m")

\* a chunk that spanned the header boundary and a later chunk both passed
PassThroughWitness ==
    /\ Fed > 2 * S
    /\ calls = 3
    /\ x2m.key = <<1, 2, 3, 4>>
    /\ Len(x2m.data.buf_out) = Fed
    /\ Len(log["x2m"]) = 1
    /\ log["x2m"][1].op = "pass"

\* C4: truncated stream.  While fewer than S bytes have been fed, the
\* output is empty, the state is DecryptHeader and buf_in holds every byte
\* fed so far, in order.
TruncatedHolds(d) ==
    Fed < S =>
        /\ d.data.buf_out = <<>>
        /\ d.state = "DecryptHeader"
        /\ d.data.buf_in = input

TruncatedStream ==
    TruncatedHolds(x2m) /\ TruncatedHolds(x3m)

\* three calls delivered three bytes
TruncatedWitness ==
    /\ calls = 3
    /\ Fed = 3
    /\ x2m.data.buf_in = input
    /\ Len(log["x2m"]) = 1

\* C5: one-shot transform.  In every write call: do_header_decryption has
\* run at most once on the instance; a decoder in PassThrough stays there,
\* does not run the transform again and appends the bytes of the chunk to
\* its output as they are.
OneShotStep(d, dn, i) ==
    /\ decrypts'[i] <= 1
    /\ d.state = "PassThrough" =>
          /\ dn.state = "PassThrough"
          /\ decrypts'[i] = decrypts[i]
          /\ dn.data.buf_out =
                d.data.buf_out \o SubSeq(input', Len(input) + 1, Len(input'))

OneShot ==
    [][OneShotStep(x2m, x2m', "x2m") /\ OneShotStep(x3m, x3m', "x3m")]_vars

\* after the header, two more full blocks of S bytes were fed
OneShotWitness ==
    /\ Fed = 3 * S
    /\ calls = 3
    /\ x2m.state = "PassThrough"
    /\ decrypts["x2m"] = 1
    /\ decrypts["x3m"] = 1
    /\ log["x2m"] = <<Event("pass", 0, S, TRUE, <<>>, <<>>)>>

\* C6 as claimed: with a key of the right length and a 1024-entry table,
\* no write call aborts or returns an error.
WriteNeverFails ==
    \A i \in Insts : ret[i] \in {"None", "Ok"}

\* C6 as amended: when, in addition, every table entry is below S, every
\* write call returns Ok.
WriteNeverFailsInRange ==
    /\ (calls > 0 /\ TableInRange(x2m.scramble_table)) => ret["x2m"] = "Ok"
    /\ (calls > 0 /\ TableInRange(x3m.scramble_table)) =>
          (ret["x3m"] = "Ok" /\ ret["one"] = "Ok")

\* an empty call made right after a call that descrambled the header through a table
\* that is in range but not a bijection
WriteOkWitness ==
    /\ x2m.scramble_table = TableFold
    /\ calls = 3
    /\ Fed = S
    /\ x2m.state = "PassThrough"
    /\ ret["x2m"] = "Ok"
    /\ log["x2m"] = <<>>

\* C7: offset.  A write call never decreases offset: it adds S when the
\* call makes the header transition, plus the number of bytes the
\* PassThrough arm copied to the output.
OffsetStep(d, dn, i) ==
    LET header == IF d.state # dn.state THEN S ELSE 0
        copied == Len(dn.data.buf_out) - Len(d.data.buf_out) - header
    IN  /\ dn.data.offset >= d.data.offset
        /\ dn.data.offset = d.data.offset + header + copied
        /\ copied >= 0
        /\ \A j \in 1..Len(log'[i]) :
              log'[i][j].op = "pass" => log'[i][j].n = copied

OffsetMonotonic ==
    [][OffsetStep(x2m, x2m', "x2m") /\ OffsetStep(x3m, x3m', "x3m")]_vars

\* one call made the transition and copied one more byte, the next copied S
OffsetWitness ==
    /\ calls = 2
    /\ Fed = 2 * S + 1
    /\ x2m.data.offset = 2 * S + 1
    /\ x3m.data.offset = 2 * S + 1

\* C8: key period.  A new_x2m decoder with key K and a new_x3m decoder
\* with K repeated 8 times, same table, same chunks, agree on state,
\* buf_in, buf_out and offset after every write call.
KeyPeriod ==
    x3m.key = Repeat8(x2m.key) =>
        /\ x2m.state = x3m.state
        /\ x2m.data = x3m.data
        /\ ret["x2m"] = ret["x3m"]

KeyPeriodWitness ==
    /\ x2m.key = <<1, 2, 3, 4>>
    /\ x3m.key = Repeat8(x2m.key)
    /\ x2m.scramble_table = TableReverse
    /\ calls = 3
    /\ Fed > S
    /\ Len(x3m.data.buf_out) = Fed

\* C9: bounded pending buffer.  buf_in never holds more than S bytes; after
\* every write call that returned it holds fewer than S; it is empty in
\* PassThrough; inside a call it holds exactly S only when
\* read_until_offset reports the header complete.
BoundedPending(d, i) ==
    /\ Len(d.data.buf_in) <= S
    /\ ret[i] # "Panic" => Len(d.data.buf_in) < S
    /\ d.state = "PassThrough" => d.data.buf_in = <<>>
    /\ \A j \in Reads(i) :
          /\ Len(log[i][j].pending) <= S
          /\ (Len(log[i][j].pending) = S) <=> log[i][j].ready

PendingBounded ==
    BoundedPending(x2m, "x2m") /\ BoundedPending(x3m, "x3m")

\* the last call filled buf_in to S bytes and left it empty
PendingWitness ==
    /\ x2m.state = "PassThrough"
    /\ x2m.data.buf_in = <<>>
    /\ \E j \in Reads("x2m") :
          /\ Len(log["x2m"][j].pending) = S
          /\ log["x2m"][j].k > 0

\* C10: split and retain.  read_until_offset, called with k bytes pending
\* and a chunk of n bytes: if k + n < S the whole chunk is appended and the
\* answer is not ready; otherwise the first S - k bytes are appended, the
\* answer is ready and the other n - (S - k) bytes stay, in order, and are
\* what the PassThrough arm copies in the same write call.
SplitStep(d, i) ==
    \A j \in Reads(i) :
        LET e      == log[i][j]
            chunk  == SubSeq(input, Fed - e.n + 1, Fed)
            before == SubSeq(input, 1, e.k)
        IN  /\ j = 1
            /\ e.k = Fed - e.n
            /\ IF e.k + e.n < S
               THEN /\ e.pending = before \o chunk
                    /\ ~e.ready
                    /\ e.rest = <<>>
               ELSE /\ e.pending = before \o SubSeq(chunk, 1, S - e.k)
                    /\ e.ready
                    /\ Len(e.rest) = e.n - (S - e.k)
                    /\ e.rest = SubSeq(chunk, S - e.k + 1, e.n)
                    /\ (ret[i] = "Ok" /\ e.rest # <<>>) =>
                          /\ \E q \in Passes(i) : log[i][q].n = Len(e.rest)
                          /\ SubSeq(d.data.buf_out, S + 1, Len(d.data.buf_out))
                                = e.rest

SplitAndRetain ==
    SplitStep(x2m, "x2m") /\ SplitStep(x3m, "x3m")

\* with one byte pending, a chunk of S + 1 bytes gave S - 1 bytes to buf_in
\* and kept two for the PassThrough arm
SplitWitness ==
    \E j \in Reads("x2m") :
        /\ log["x2m"][j].k = 1
        /\ log["x2m"][j].n = S + 1
        /\ log["x2m"][j].ready
        /\ Len(log["x2m"][j].rest) = 2
        /\ ret["x2m"] = "Ok"

\* C11: the transition happens in the call that completes the header.
\* After every write call that returned, the state is PassThrough exactly
\* when at least S bytes have been fed; the call whose chunk ends on or
\* spans the boundary itself descrambles the header and passes the rest of
\* its chunk through, so the output already holds every byte fed.
TransitionHolds(d, i) ==
    ret[i] # "Panic" =>
        /\ (d.state = "PassThrough") <=> (Fed >= S)
        /\ Fed >= S => Len(d.data.buf_out) = Fed
        /\ \A j \in Reads(i) :
              log[i][j].ready =>
                /\ Len(log[i]) >= j + 1
                /\ log[i][j + 1].op = "decrypt"
                /\ log[i][j].rest # <<>> =>
                      /\ Len(log[i]) = j + 2
                      /\ log[i][j + 2].op = "pass"
                      /\ log[i][j + 2].n = Len(log[i][j].rest)

TransitionInCall ==
    TransitionHolds(x2m, "x2m") /\ TransitionHolds(x3m, "x3m")

\* with S - 1 bytes pending, one call of S + 1 bytes completed the header,
\* descrambled it and passed the other S bytes through
TransitionWitness ==
    /\ calls = 2
    /\ Fed = 2 * S
    /\ x2m.state = "PassThrough"
    /\ Len(x2m.data.buf_out) = Fed
    /\ Len(log["x2m"]) = 3
    /\ log["x2m"][1].k = S - 1
    /\ log["x2m"][3].n = S

\* C12: output is append-only for write.  The output after a write call
\* is the output before the call followed by the bytes the call emitted;
\* no byte already there is removed, moved or changed.  (No consumer
\* drains the output here.)
AppendOnlyStep(d, dn) ==
    /\ Len(dn.data.buf_out) >= Len(d.data.buf_out)
    /\ SubSeq(dn.data.buf_out, 1, Len(d.data.buf_out)) = d.data.buf_out

AppendOnly ==
    [][AppendOnlyStep(x2m, x2m') /\ AppendOnlyStep(x3m, x3m')]_vars

\* the output grew in three calls: the header, then one byte, then one byte
AppendWitness ==
    /\ calls = 3
    /\ Fed = S + 2
    /\ Len(x2m.data.buf_out) = S + 2
    /\ log["x2m"] = <<Event("pass", 0, 1, TRUE, <<>>, <<>>)>>
    /\ x2m.key = <<1, 2, 3, 4>>

\* C13: every write call ends with its chunk consumed.  The call ends (its
\* result is Ok, or the abort of C6); every read_until_offset in its loop
\* leaves a strictly shorter remainder, the PassThrough arm is the last
\* iteration, and the loop runs at most twice; when the call returns, each
\* byte of the chunk went either to buf_in or to buf_out.
ConsumedStep(d, dn, i) ==
    LET n == Len(input') - Len(input)
        l == log'[i]
    IN  /\ ret'[i] \in {"Ok", "Panic"}
        /\ \A j \in 1..Len(l) :
              /\ l[j].op = "read" => (l[j].n > 0 /\ Len(l[j].rest) < l[j].n)
              /\ l[j].op = "pass" => (l[j].n > 0 /\ j = Len(l))
        /\ CountOp(l, "read") + CountOp(l, "pass") <= 2
        /\ n = 0 => l = <<>>
        /\ ret'[i] = "Ok" =>
              Len(dn.data.buf_in) + Len(dn.data.buf_out)
                = Len(d.data.buf_in) + Len(d.data.buf_out) + n

FrameStep(d, dn) ==
    /\ dn.key = d.key
    /\ dn.scramble_table = d.scramble_table
    /\ d.state = "PassThrough" =>
          /\ dn.state = "PassThrough"
          /\ dn.data.buf_in = d.data.buf_in
          /\ dn.data.buf_in = <<>>

KeyTableFrame ==
    [][FrameStep(x2m, x2m') /\ FrameStep(x3m, x3m')]_vars

\* three calls of S + 1 bytes, the last two made in PassThrough
FrameWitness ==
    /\ calls = 3
    /\ Fed = 3 * S + 3
    /\ x2m.state = "PassThrough"
    /\ x2m.key = <<1, 2, 3, 4>>
    /\ x3m.key = Aperiodic32
    /\ x2m.scramble_table = TableReverse
    /\ x3m.scramble_table = TableReverse

\* C15: an empty write is a no-op.  A write call with a zero-length chunk
\* returns Ok and leaves state, buf_in, buf_out and offset unchanged.
EmptyStep(d, dn, i) ==
    Len(input') = Len(input) =>
        /\ ret'[i] = "Ok"
        /\ dn.state = d.state
        /\ dn.data = d.data

EmptyWriteNoOp ==
    [][EmptyStep(x2m, x2m', "x2m") /\ EmptyStep(x3m, x3m', "x3m")]_vars

\* an empty write was made with S - 1 bytes pending
EmptyWitness ==
    /\ calls = 2
    /\ Fed = S - 1
    /\ log["x2m"] = <<>>
    /\ ret["x2m"] = "Ok"
    /\ Len(x2m.data.buf_in) = S - 1
    /\ x2m.state = "DecryptHeader"

\* C16: byte accounting.  After every write call that returned,
\* offset + Len(buf_in) is the number of bytes fed; offset is 0 in
\* DecryptHeader and the number of bytes fed in PassThrough.
AccountingHolds(d, i) ==
    ret[i] # "Panic" =>
        /\ d.data.offset + Len(d.data.buf_in) = Fed
        /\ d.state = "DecryptHeader" => d.data.offset = 0
        /\ d.state = "PassThrough" => d.data.offset = Fed

ByteAccounting ==
    AccountingHolds(x2m, "x2m") /\ AccountingHolds(x3m, "x3m")

\* S - 1, S + 1 and S - 1 bytes were fed: the offset is 3 * S - 1
AccountingWitness ==
    /\ calls = 3
    /\ Fed = 3 * S - 1
    /\ x2m.data.offset = 3 * S - 1
    /\ x3m.data.offset = 3 * S - 1
    /\ log["x2m"][1].n = S - 1

\* C17: length preservation.  The decoder never holds more output bytes
\* than it was fed; after every write call that returned, the number of
\* bytes emitted is 0 while fewer than S bytes were fed and the number of
\* bytes fed from then on.  (No consumer drains the output here, so the
\* bytes emitted so far are the bytes of buf_out.)
LengthHolds(d, i) ==
    /\ Len(d.data.buf_out) <= Fed
    /\ ret[i] # "Panic" =>
          Len(d.data.buf_out) = (IF Fed < S THEN 0 ELSE Fed)

LengthPreserved ==
    LengthHolds(x2m, "x2m") /\ LengthHolds(x3m, "x3m")

\* S, S + 1 and S bytes were fed and as many were emitted
LengthWitness ==
    /\ calls = 3
    /\ Fed = 3 * S + 1
    /\ Len(x2m.data.buf_out) = 3 * S + 1
    /\ Len(x3m.data.buf_out) = 3 * S + 1
    /\ log["x2m"][1].n = S
====
